---- MODULE Spec2Model ----
(***************************************************************************)
(* Model of the QA-testing synchronisation job (src/src/main.py with the   *)
(* remote calls of src/src/graphql.py and the traversals of                *)
(* src/scr/graphql.py).  One run of the job is notify_change_status(); the *)
(* remote system (issues, project items, comments, merged pull requests)   *)
(* is the environment.  Every remote call may fail.                        *)
(***************************************************************************)
EXTENDS Integers, Sequences, FiniteSets, TLC

\* ------------------------------------------------------------------ bounds
\* Runs of the job the model follows.
MaxRuns == 2
\* Mentions in the descriptions of the merged pull requests, all together.
MaxPairs == 2

\* ------------------------------------------------------------- basic values
None == "None"

\* main.py:123 and graphql.py:211: the target status.
TargetStatus == "QA Testing"
OtherStatus == "In Progress"

\* config.repository_owner, config.repository_name (main.py:21, 27).
repository_owner == "org"
repository_name == "myrepo"

\* The target board (config.project_title resolved by get_project_id_by_title)
\* and another board an issue may be on.
TargetProject == "P_target"
OtherProject == "P_other"

\* Pull requests merged into dev on the remote.
PRNumbers == {99, 100}
PrUrl(n) == <<"pull", n>>

\* A mention as the pattern of parse_issue_references matches it: the groups
\* org and repo are optional (None when absent), number is mandatory and
\* holds the digits matched.
BareMention == [org |-> None, repo |-> None, number |-> <<"1">>]
FullMention == [org |-> "org", repo |-> "myrepo", number |-> <<"1">>]
RepoMention == [org |-> None, repo |-> "other", number |-> <<"1">>]
Mentions == {BareMention, FullMention, RepoMention}

\* A description: its mentions in order of appearance.
Texts(n) == UNION {[1..k -> Mentions] : k \in 0..n}

\* Issues of the remote, by node id.
Issues == {"I1", "I2"}

\* The project items an issue may have: none, one on the target board
\* (status differing from the target, or at the target), one on another
\* board, at the target status.
Item(p, s) == [id |-> <<"item", p>>, project |-> p, status |-> s]
ItemLists ==
    { <<>>,
      <<Item(TargetProject, OtherStatus)>>,
      <<Item(TargetProject, TargetStatus)>>,
      <<Item(OtherProject, TargetStatus)>> }

VARIABLES
    prs,          \* remote: the merged pull requests, in server order
    description,  \* remote: PR number -> description (its mentions)
    items,        \* remote: issue -> its project items, in server order
    comments,     \* remote: issue -> its comments (bodies), oldest first
    board,        \* remote: "ok", or what of the target board is missing
    reply_fields, \* transport: the fields a pull request node carries
    dry_run,      \* config.dry_run
    run,          \* runs started so far
    pc,           \* "idle", "prs" (main.py:89), "refs" (main.py:102), "exited"
    exit,         \* how the last run ended
    merged_prs,   \* main.py:50: the nodes the run fetched
    pr_idx,       \* position in merged_prs
    ref_idx,      \* position in mentioned_issues
    last,         \* the remote calls of the last iteration of main.py:102
    nLookup,      \* get_issue_id_by_number calls of the current run
    nUpdate,      \* update_issue_status_to_qa_testing calls of the run
    nPost,        \* add_issue_comment calls of the current run
    posts,        \*   and how many of them for each (issue, PR number)
    clean,        \* no remote call has failed in any run so far
    referenced,   \* remote: PR number -> the issues the remote lists as
                  \*   referenced by it (referencedIssues), in server order
    tfn,          \* a traversal on its own: the function that traverses
    srv,          \*   the server it talks to: cursor -> reply
    tst,          \*   its state
    text,         \* parse_issue_references on its own: its argument
    parsed,       \*   and what it returned
    lookup        \* the board lookups of an issue on their own: what
                  \*   get_project_item_id_for_issue and get_issue_status
                  \*   returned for the items of issue I1

vars == <<prs, description, items, comments, board, reply_fields, dry_run, run,
          pc, exit, merged_prs, pr_idx, ref_idx, last, nLookup, nUpdate, nPost,
          posts, clean,
          referenced, tfn, srv, tst, text, parsed, lookup>>

jobVars == <<prs, description, items, comments, board, reply_fields, dry_run,
             run, pc, exit, merged_prs, pr_idx, ref_idx, last, nLookup, nUpdate, nPost,
             posts, clean, referenced>>
pageVars == <<tfn, srv, tst>>
parseVars == <<text, parsed>>

remote == <<prs, description, items, board, reply_fields, referenced>>
counters == <<nLookup, nUpdate, nPost, posts>>

\* --------------------------------------------------------------- sequences
RECURSIVE SeqSum(_)
SeqSum(s) == IF s = <<>> THEN 0 ELSE Head(s) + SeqSum(Tail(s))

\* Python's `text in body` on token sequences.
IsInfix(comment_text, body) ==
    \E k \in 0..(Len(body) - Len(comment_text)) :
        \A j \in 1..Len(comment_text) : body[k + j] = comment_text[j]

\* --------------------------------------------------- parse_issue_references
\* The characters of the pattern's classes (main.py:16): [\w-] and \d.
DigitChars == <<"0", "1", "2", "3", "4", "5", "6", "7", "8", "9">>
IsDigit(c) == \E v \in 1..Len(DigitChars) : DigitChars[v] = c
LetterChars ==
    {"a", "c", "d", "e", "f", "g", "i", "m", "n", "o", "p", "r", "s", "t",
     "h", "x", "y", "_", "-"}
IsWord(c) == c \in LetterChars \/ IsDigit(c)

\* main.py:32: int() of the digits matched.
RECURSIVE int(_)
int(digits) ==
    IF digits = <<>> THEN 0
    ELSE 10 * int(SubSeq(digits, 1, Len(digits) - 1))
         + ((CHOOSE v \in 1..Len(DigitChars) :
                DigitChars[v] = digits[Len(digits)]) - 1)

\* The names the model's texts spell, as Python strings and as characters.
Names == {"org", "acme", "myrepo", "other", "fixes"}
Chars(name) ==
    CASE name = "org" -> <<"o", "r", "g">>
      [] name = "acme" -> <<"a", "c", "m", "e">>
      [] name = "myrepo" -> <<"m", "y", "r", "e", "p", "o">>
      [] name = "other" -> <<"o", "t", "h", "e", "r">>
      [] name = "fixes" -> <<"f", "i", "x", "e", "s">>

\* match.group(name): the string of the characters the group matched.
Str(chars) ==
    IF \E n \in Names : Chars(n) = chars
    THEN CHOOSE n \in Names : Chars(n) = chars
    ELSE "?"

\* The end of the longest run from position p on of characters of a class
\* (a greedy + of the pattern); p - 1 when there is none.
RECURSIVE RunEnd(_, _, _)
RunEnd(s, p, digitsOnly) ==
    IF p > Len(s) THEN p - 1
    ELSE IF (IF digitsOnly THEN IsDigit(s[p]) ELSE IsWord(s[p]))
    THEN RunEnd(s, p + 1, digitsOnly)
    ELSE p - 1

\* `#(?P<number>\d+)` at position p.
NumberAt(s, p) ==
    LET e == RunEnd(s, p + 1, TRUE) IN
    [ok |-> p <= Len(s) /\ s[p] = "#" /\ e >= p + 1,
     digits |-> IF e >= p + 1 /\ p <= Len(s) THEN SubSeq(s, p + 1, e) ELSE <<>>,
     end |-> e]

\* main.py:16: the pattern at position p, its alternatives in the order the
\* matcher tries them: org/repo#number, repo#number, #number.  A group of
\* [\w-]+ followed by "/" or "#" ends where its run ends.
MatchAt(s, p) ==
    LET e1 == RunEnd(s, p, FALSE)
        e2 == RunEnd(s, e1 + 2, FALSE)
        full == NumberAt(s, e2 + 1)
        short == NumberAt(s, e1 + 1)
        bare == NumberAt(s, p)
    IN
    IF e1 >= p /\ e1 + 1 <= Len(s) /\ s[e1 + 1] = "/" /\ e2 >= e1 + 2
       /\ full.ok
    THEN [ok |-> TRUE, org |-> Str(SubSeq(s, p, e1)),
          repo |-> Str(SubSeq(s, e1 + 2, e2)), number |-> full.digits,
          end |-> full.end]
    ELSE IF e1 >= p /\ short.ok
    THEN [ok |-> TRUE, org |-> None, repo |-> Str(SubSeq(s, p, e1)),
          number |-> short.digits, end |-> short.end]
    ELSE IF bare.ok
    THEN [ok |-> TRUE, org |-> None, repo |-> None, number |-> bare.digits,
          end |-> bare.end]
    ELSE [ok |-> FALSE, org |-> None, repo |-> None, number |-> <<>>,
          end |-> p]

\* main.py:17: re.finditer, the matches from left to right, each search
\* starting where the match before ended.
RECURSIVE finditer(_, _)
finditer(s, p) ==
    IF p > Len(s) THEN <<>>
    ELSE LET m == MatchAt(s, p) IN
         IF m.ok
         THEN <<[org |-> m.org, repo |-> m.repo, number |-> m.number]>>
                  \o finditer(s, m.end + 1)
         ELSE finditer(s, p + 1)

\* main.py:20-33 without the `or config.repository_owner` of line 21.
ParseOne_NoOwnerDefault(m) ==
    [org    |-> m.org,
     repo   |-> IF m.repo = None THEN repository_name ELSE m.repo,
     number |-> int(m.number)]

\* main.py:20-33.  Defaults by `or` and by the `repo is None` test; the
\* number by int().
ParseOne(m) ==
    [org    |-> IF m.org # None THEN m.org ELSE repository_owner,
     repo   |-> IF m.repo = None THEN repository_name ELSE m.repo,
     number |-> int(m.number)]

\* main.py:18-35: one reference per match, in order.
parse_issue_references(matches) ==
    [k \in 1..Len(matches) |-> ParseOne(matches[k])]

\* main.py:8-35 on a text: `text or ""` is searched, the matches are turned
\* into references.
ParseText(t) ==
    parse_issue_references(finditer(IF t.null THEN <<>> ELSE t.chars, 1))

\* ------------------------------------------------------------ remote reads
\* The identifier lookup main.py:107 calls; graphql.py does not define it.
get_issue_id_by_number(owner, repo, number) ==
    IF owner = "org" /\ repo = "myrepo" /\ number = 1 THEN "I1"
    ELSE IF owner = "org" /\ repo = "other" /\ number = 1 THEN "I2"
    ELSE None

\* graphql.py:248-252 returning the value of the first project item, with
\* or without a value for the field.
get_issue_status_First(nodes) ==
    IF nodes = <<>> THEN None ELSE Head(nodes).status

\* graphql.py:248-252: the first project item with a value for the field.
RECURSIVE get_issue_status(_)
get_issue_status(nodes) ==
    IF nodes = <<>> THEN None
    ELSE IF Head(nodes).status # None THEN Head(nodes).status
    ELSE get_issue_status(Tail(nodes))

\* graphql.py:289-293: the item of the given project.
RECURSIVE get_project_item_id_for_issue(_, _)
get_project_item_id_for_issue(project_id, nodes) ==
    IF nodes = <<>> THEN None
    ELSE IF Head(nodes).project = project_id THEN Head(nodes).id
    ELSE get_project_item_id_for_issue(project_id, Tail(nodes))

\* main.py:38-44 returning from inside the loop after the first comment.
check_comment_exists_FirstOnly(bodies, comment_text) ==
    bodies # <<>> /\ IsInfix(comment_text, bodies[1])

\* main.py:38-44.
check_comment_exists(bodies, comment_text) ==
    \E k \in 1..Len(bodies) : IsInfix(comment_text, bodies[k])

\* main.py:112-115: the marker, a function of the PR's number and URL.
CommentText(pr_number, pr_url) == <<"triggered by", pr_number, pr_url>>

\* The remote's history of an issue holds a comment with the marker.
HasMarker(bodies, comment_text) ==
    \E k \in 1..Len(bodies) : IsInfix(comment_text, bodies[k])

\* ------------------------------------------------------------- traversals
\* A cursor is a number; NoCursor is Python's None (graphql.py:47, the first
\* request's afterCursor).
NoCursor == 0

\* Requests one traversal may issue in the model, and the greatest cursor
\* the server hands out.
MaxRequests == 4
MaxCursor == 2
Cursors == NoCursor..MaxCursor

\* A reply of the transport to one page request: a structured result
\* ("data"), an error response ("errors") or a requests.RequestException
\* ("exception").
ReplyKinds == {"data", "errors", "exception"}
Reply(kind, nodes, endCursor, hasNextPage) ==
    [kind |-> kind, nodes |-> nodes, endCursor |-> endCursor,
     hasNextPage |-> hasNextPage]

\* graphql.py:67-70: the since_timestamp filter; main.py:50-53 passes none.
FilterSince(nodes, since_timestamp) ==
    IF since_timestamp = None THEN nodes
    ELSE SelectSeq(nodes, LAMBDA pr : ~(pr.mergedAt < since_timestamp))

\* The state of a traversal: the cursor of the next request, the items
\* collected, and whether it still runs, has returned or has raised.
TStart == [after |-> NoCursor, acc |-> <<>>, status |-> "running",
           requests |-> 0, cursors |-> <<>>]

TReturn(st, result) ==
    [st EXCEPT !.acc = result, !.status = "returned",
               !.requests = st.requests + 1,
               !.cursors = Append(st.cursors, st.after)]

\* The loop going on without taking the endCursor of the page.
TContinue_SameCursor(st, acc, cursor) ==
    [st EXCEPT !.acc = acc,
               !.requests = st.requests + 1,
               !.cursors = Append(st.cursors, st.after)]

\* graphql.py:80 and 376, scr/graphql.py:61-63: the next request takes the
\* endCursor of the page.
TContinue(st, acc, cursor) ==
    [st EXCEPT !.acc = acc, !.after = cursor,
               !.requests = st.requests + 1,
               !.cursors = Append(st.cursors, st.after)]

\* graphql.py:49-84 with the error response returning [] as the exception
\* does.
PrsStep_ErrorsDiscard(st, reply, since_timestamp) ==
    IF reply.kind \in {"exception", "errors"} THEN TReturn(st, <<>>)
    ELSE LET acc == st.acc \o FilterSince(reply.nodes, since_timestamp) IN
         IF ~reply.hasNextPage THEN TReturn(st, acc)
         ELSE TContinue(st, acc, reply.endCursor)

\* graphql.py:49-84, one pass of the loop of get_recent_merged_prs_in_dev.
PrsStep(st, reply, since_timestamp) ==
    IF reply.kind = "exception" THEN TReturn(st, <<>>)
    ELSE IF reply.kind = "errors" THEN TReturn(st, st.acc)
    ELSE LET acc == st.acc \o FilterSince(reply.nodes, since_timestamp) IN
         IF ~reply.hasNextPage THEN TReturn(st, acc)
         ELSE TContinue(st, acc, reply.endCursor)

\* graphql.py:353-380, one pass of the loop of get_issue_comments: no test
\* for "errors"; an error response carries no nodes and no pageInfo.
CommentsStep(st, reply) ==
    IF reply.kind = "exception" THEN TReturn(st, <<>>)
    ELSE IF reply.kind = "errors" THEN TReturn(st, st.acc)
    ELSE LET acc == st.acc \o reply.nodes IN
         IF ~reply.hasNextPage THEN TReturn(st, acc)
         ELSE TContinue(st, acc, reply.endCursor)

\* scr/graphql.py:43-64, one call of the recursive get_repo_issues: no
\* try, so an exception of the transport leaves the function.
RepoIssuesStep(st, reply) ==
    IF reply.kind = "exception"
    THEN [TReturn(st, <<>>) EXCEPT !.status = "raised"]
    ELSE IF reply.kind = "errors" THEN TReturn(st, st.acc)
    ELSE LET acc == st.acc \o reply.nodes IN
         IF ~reply.hasNextPage THEN TReturn(st, acc)
         ELSE TContinue(st, acc, reply.endCursor)

\* scr/graphql.py:110-151, one call of the recursive get_project_issues,
\* without filters: an error response and an exception of the transport
\* both `return []`, which every caller up the recursion returns.
ProjectIssuesStep(st, reply) ==
    IF reply.kind \in {"exception", "errors"} THEN TReturn(st, <<>>)
    ELSE LET acc == st.acc \o reply.nodes IN
         IF ~reply.hasNextPage THEN TReturn(st, acc)
         ELSE TContinue(st, acc, reply.endCursor)

\* scr/graphql.py:196-227, one call of the recursive get_project_items: as
\* get_project_issues, the nodes never filtered.
ProjectItemsStep(st, reply) ==
    IF reply.kind \in {"exception", "errors"} THEN TReturn(st, <<>>)
    ELSE LET acc == st.acc \o reply.nodes IN
         IF ~reply.hasNextPage THEN TReturn(st, acc)
         ELSE TContinue(st, acc, reply.endCursor)

Traversals ==
    {"get_recent_merged_prs_in_dev", "get_issue_comments", "get_repo_issues",
     "get_project_issues", "get_project_items"}

PageStep(fn, st, reply) ==
    IF fn = "get_recent_merged_prs_in_dev" THEN PrsStep(st, reply, None)
    ELSE IF fn = "get_issue_comments" THEN CommentsStep(st, reply)
    ELSE IF fn = "get_project_issues" THEN ProjectIssuesStep(st, reply)
    ELSE IF fn = "get_project_items" THEN ProjectItemsStep(st, reply)
    ELSE RepoIssuesStep(st, reply)

\* The whole traversal against a server (cursor -> reply).
RECURSIVE Traverse(_, _, _, _)
Traverse(fn, server, st, fuel) ==
    IF st.status # "running" \/ fuel = 0 THEN st
    ELSE Traverse(fn, server, PageStep(fn, st, server[st.after]), fuel - 1)

\* A collection smaller than the page size (first: 100) is served as one
\* page.
OnePage(kind, nodes) ==
    [c \in {NoCursor} |->
        Reply(kind, IF kind = "data" THEN nodes ELSE <<>>, NoCursor, FALSE)]

get_recent_merged_prs_in_dev(kind, nodes) ==
    Traverse("get_recent_merged_prs_in_dev", OnePage(kind, nodes), TStart,
             MaxRequests).acc

get_issue_comments(kind, nodes) ==
    Traverse("get_issue_comments", OnePage(kind, nodes), TStart,
             MaxRequests).acc

\* ------------------------------------------------------------ remote writes
\* graphql.py:299-301: the parameters update_issue_status_to_qa_testing
\* declares, and main.py:126-134: the keywords the call passes.
UpdateParameters ==
    {"owner", "project_title", "project_id", "status_field_id", "item_id",
     "status_option_id"}
UpdateKeywords ==
    {"owner", "project_title", "project_id", "status_field_id", "item_id",
     "status_option_id", "issue_id"}

\* Python binds the keywords before the body runs: a keyword the function
\* does not declare raises TypeError and no request is sent.
UpdateBinds == UpdateKeywords \subseteq UpdateParameters

\* main.py:131: the item id the call passes.
UpdateItemId(issue_id) == None

\* graphql.py:320-329: the result of the call once it is bound; an error
\* response carries no "data".
update_issue_status_to_qa_testing(kind) ==
    IF ~UpdateBinds THEN "TypeError"
    ELSE IF kind = "data" THEN "data"
    ELSE None

\* The remote's updateProjectV2ItemFieldValue: the named item gets the option.
ApplyUpdate(nodes, item_id) ==
    [k \in 1..Len(nodes) |->
        IF nodes[k].id = item_id
        THEN [nodes[k] EXCEPT !.status = TargetStatus]
        ELSE nodes[k]]

\* ------------------------------------------------------------------ the run
\* A remote call of an iteration: what was called for which pair, whether
\* the transport answered, what the call returned, and (for the comment
\* read) whether the remote's history held the marker at that time.
Call(op, pr, k, issue, kind, res, marker) ==
    [op |-> op, pr |-> pr.number, ref |-> k, issue |-> issue,
     ok |-> kind = "data", res |-> res, marker |-> marker]

\* main.py:123 with a status of None not taken for a status to update.
NeedsUpdate_SkipNone(current_status) ==
    current_status \notin {TargetStatus, None}

\* main.py:123 with the update attempted whatever the status read.
NeedsUpdate_Always(current_status) == TRUE

\* main.py:123 with the test inverted.
NeedsUpdate_Inverted(current_status) == current_status = TargetStatus

\* main.py:123.
NeedsUpdate(current_status) == current_status # TargetStatus

\* main.py:136.
UpdateSucceeded(update_result) ==
    update_result \notin {None, "TypeError"}

\* main.py:93: pr.get("bodyText") or "".
PrBody(pr) == IF "bodyText" \in pr.keys THEN pr.bodyText ELSE <<>>

\* The outcomes the transport may give the calls of one iteration.
Outcomes ==
    [id : {"data", "exception"}, comments : {"data", "exception"},
     status : {"data", "exception"}, update : ReplyKinds,
     add : {"data", "exception"}]

\* main.py:108-110 raising instead of going on with the next reference.
Dropped_Raises(c1, its, coms) ==
    [calls |-> <<c1>>, items |-> its, comments |-> coms, raised |-> TRUE]

\* main.py:108-110: the lookup gave no issue; the reference is dropped with
\* a warning and the loop goes on (`continue`).
Dropped(c1, its, coms) ==
    [calls |-> <<c1>>, items |-> its, comments |-> coms, raised |-> FALSE]

\* main.py:102-143: one iteration of the inner loop, for reference k of pr.
\* Gives the calls issued in order, the remote's items and comments after
\* it, and whether it raised.
ProcessPair(pr, k, ref, its, coms, o) ==
    LET found == IF o.id = "data"
                 THEN get_issue_id_by_number(ref.org, ref.repo, ref.number)
                 ELSE None
        c1 == Call("get_issue_id_by_number", pr, k, found, o.id, found, "-")
        same == Dropped(c1, its, coms)
    IN
    IF found = None THEN same
    ELSE
    LET issue_id == found
        comment_text == CommentText(pr.number, pr.url)
        read == get_issue_comments(o.comments, coms[issue_id])
        exists == check_comment_exists(read, comment_text)
        c2 == Call("get_issue_comments", pr, k, issue_id, o.comments,
                   IF exists THEN "found" ELSE "absent",
                   IF HasMarker(coms[issue_id], comment_text)
                   THEN "present" ELSE "missing")
    IN
    IF exists THEN [same EXCEPT !.calls = <<c1, c2>>]
    ELSE
    LET current_status == IF o.status = "data"
                          THEN get_issue_status(its[issue_id])
                          ELSE None
        c3 == Call("get_issue_status", pr, k, issue_id, o.status,
                   current_status, "-")
        posted == [coms EXCEPT ![issue_id] = Append(@, comment_text)]
        c5 == Call("add_issue_comment", pr, k, issue_id, o.add, "-", "-")
        comment == IF o.add = "data" THEN posted ELSE coms
    IN
    IF NeedsUpdate(current_status)
    THEN LET update_result == update_issue_status_to_qa_testing(o.update)
             kind == IF update_result = "TypeError" THEN "data" ELSE o.update
             c4 == Call("update_issue_status_to_qa_testing", pr, k, issue_id,
                        kind, update_result, "-")
             updated == IF update_result = "data"
                        THEN [its EXCEPT ![issue_id] =
                                 ApplyUpdate(@, UpdateItemId(issue_id))]
                        ELSE its
         IN IF update_result = "TypeError"
            THEN [calls |-> <<c1, c2, c3, c4>>, items |-> its,
                  comments |-> coms, raised |-> TRUE]
            ELSE IF UpdateSucceeded(update_result)
            THEN [calls |-> <<c1, c2, c3, c4, c5>>, items |-> updated,
                  comments |-> comment, raised |-> FALSE]
            ELSE [calls |-> <<c1, c2, c3, c4>>, items |-> updated,
                  comments |-> coms, raised |-> FALSE]
    ELSE [calls |-> <<c1, c2, c3, c5>>, items |-> its,
          comments |-> comment, raised |-> FALSE]

\* graphql.py:24-37: the fields the query of get_recent_merged_prs_in_dev
\* selects.
PrSelection ==
    {"id", "number", "title", "mergedAt", "url", "referencedIssues"}

\* A node of the reply: its keys are the fields the reply carries; pr.get
\* gives None for any other.
PrNode(n, body, fields, refd) ==
    [number |-> n, url |-> PrUrl(n), keys |-> fields,
     bodyText |-> IF "bodyText" \in fields THEN body ELSE <<>>,
     referencedIssues |-> IF "referencedIssues" \in fields THEN refd ELSE <<>>]

\* main.py:97.
mentioned_issues(pr) == parse_issue_references(PrBody(pr))

\* graphql.py:24-37 and main.py:93.  The reply carries the fields the
\* query selects; a transport that answers with the whole pull request (a
\* test double) carries bodyText too.
ReplyFields == {PrSelection, PrSelection \cup {"bodyText"}}

\* What the remote may lack of the target board.
Boards == {"ok", "no_project", "no_field", "no_option"}

\* Some description mentions the issue.  The items of an issue that no
\* description mentions are never read: they start empty.
Referenced(desc, i) ==
    \E n \in PRNumbers : \E k \in 1..Len(desc[n]) :
        LET ref == ParseOne(desc[n][k]) IN
        get_issue_id_by_number(ref.org, ref.repo, ref.number) = i

\* The board lookups not called yet.
NotLooked == [done |-> FALSE, item_id |-> None, status |-> None]

\* No comment post called yet for any (issue, PR number).
NoPosts == [q \in Issues \X PRNumbers |-> 0]

\* parse_issue_references not called, and its result before it returns.
NoText == [null |-> TRUE, chars |-> <<>>, wrote |-> <<>>]
NotParsed == [done |-> FALSE, issues |-> <<>>]

\* The state before the first run: the remote as it is, with the given
\* config.dry_run and the referencedIssues of the pull requests drawn from
\* the given set.
InitRemote(flag, refs) ==
    /\ prs \in {<<>>, <<99>>, <<99, 100>>}
    /\ description \in [PRNumbers -> Texts(MaxPairs)]
    /\ \A n \in PRNumbers :
          (\A k \in 1..Len(prs) : prs[k] # n) => description[n] = <<>>
    /\ SeqSum([k \in 1..Len(prs) |-> Len(description[prs[k]])]) <= MaxPairs
    /\ items \in [Issues -> ItemLists]
    /\ \A i \in Issues : ~Referenced(description, i) => items[i] = <<>>
    /\ comments = [i \in Issues |-> <<>>]
    /\ board \in Boards
    /\ reply_fields \in ReplyFields
    /\ dry_run = flag
    /\ run = 0
    /\ pc = "idle"
    /\ exit = "none"
    /\ merged_prs = <<>>
    /\ pr_idx = 0
    /\ ref_idx = 0
    /\ last = <<>>
    /\ nLookup = 0
    /\ nUpdate = 0
    /\ nPost = 0
    /\ posts = NoPosts
    /\ clean = TRUE
    /\ referenced \in refs
    /\ \A n \in PRNumbers :
          (\A k \in 1..Len(prs) : prs[k] # n) => referenced[n] = <<>>
    /\ tfn = "none"
    /\ srv = <<>>
    /\ tst = TStart
    /\ text = NoText
    /\ parsed = NotParsed
    /\ lookup = NotLooked

\* Pull requests the remote lists no referenced issue for.
InitWith(flag) == InitRemote(flag, {[n \in PRNumbers |-> <<>>]})

Init == InitWith(FALSE)

\* main.py:59-75 without the test of main.py:81-83.
ResolveBoard_IgnoreOption(b, failed) ==
    IF b = "no_project" \/ failed = "project" THEN "no_project"
    ELSE IF b = "no_field" \/ failed = "field" THEN "no_field"
    ELSE "none"

\* main.py:59-83: get_project_id_by_title, get_status_field_id and
\* get_qatesting_status_option_id in turn, each giving None when the
\* remote lacks the thing or the transport fails (graphql.py:114-120,
\* 156-165, 205-216).  failed names the lookup the transport fails, if any.
\* Gives the first lookup that returned None, or "none".
ResolveBoard(b, failed) ==
    IF b = "no_project" \/ failed = "project" THEN "no_project"
    ELSE IF b = "no_field" \/ failed = "field" THEN "no_field"
    ELSE IF b = "no_option" \/ failed = "option" THEN "no_option"
    ELSE "none"

\* main.py:47-83: the merged pull requests are fetched, then the project,
\* the field and the option are resolved.  Gives the nodes, how the run goes
\* on, and whether the transport answered every call issued.
Resolve(kind, nodes, b, failed) ==
    LET got == get_recent_merged_prs_in_dev(kind, nodes) IN
    [merged_prs |-> got,
     exit |-> IF got = <<>> THEN "no_prs" ELSE ResolveBoard(b, failed),
     ok |-> kind = "data" /\ (got = <<>> \/ failed = "none")]

\* main.py:146-151 and 47-83: a run starts.
StartRun ==
    /\ pc \in {"idle", "exited"}
    /\ run < MaxRuns
    /\ run' = run + 1
    /\ last' = <<>>
    /\ nLookup' = 0 /\ nUpdate' = 0 /\ nPost' = 0 /\ posts' = NoPosts
    /\ ref_idx' = 0
    /\ \E r \in { Resolve(kind,
                          [k \in 1..Len(prs) |->
                              PrNode(prs[k], description[prs[k]], reply_fields,
                                     referenced[prs[k]])],
                          board, failed) :
                    kind \in ReplyKinds,
                    failed \in {"none", "project", "field", "option"} } :
          /\ merged_prs' = r.merged_prs
          /\ clean' = (clean /\ r.ok)
          /\ exit' = r.exit
          /\ IF r.exit = "none"
             THEN pc' = "prs" /\ pr_idx' = 1
             ELSE pc' = "exited" /\ pr_idx' = 0
    /\ UNCHANGED <<remote, comments, dry_run, pageVars, parseVars, lookup>>

\* main.py:89-100: the next pull request; one without mentions is passed.
NextPR ==
    /\ pc = "prs"
    /\ pr_idx <= Len(merged_prs)
    /\ IF mentioned_issues(merged_prs[pr_idx]) = <<>>
       THEN pr_idx' = pr_idx + 1 /\ pc' = "prs" /\ ref_idx' = 0
       ELSE pr_idx' = pr_idx /\ pc' = "refs" /\ ref_idx' = 1
    /\ UNCHANGED <<remote, comments, dry_run, run, exit, merged_prs, last,
                   counters, clean, pageVars, parseVars, lookup>>

CountOp(calls, op) == Cardinality({j \in 1..Len(calls) : calls[j].op = op})

\* main.py:102-143: the next reference of the pull request.
ProcessRef ==
    /\ pc = "refs"
    /\ LET pr == merged_prs[pr_idx]
           refs == mentioned_issues(pr)
       IN \E r \in { ProcessPair(pr, ref_idx, refs[ref_idx], items,
                                 comments, o) : o \in Outcomes } :
             /\ last' = r.calls
             /\ items' = r.items
             /\ comments' = r.comments
             /\ nLookup' = nLookup + CountOp(r.calls, "get_issue_id_by_number")
             /\ nUpdate' = nUpdate
                    + CountOp(r.calls, "update_issue_status_to_qa_testing")
             /\ nPost' = nPost + CountOp(r.calls, "add_issue_comment")
             /\ posts' = [q \in Issues \X PRNumbers |->
                             posts[q] + Cardinality(
                                 {j \in 1..Len(r.calls) :
                                     /\ r.calls[j].op = "add_issue_comment"
                                     /\ r.calls[j].issue = q[1]
                                     /\ r.calls[j].pr = q[2]})]
             /\ clean' = (clean /\ \A j \in 1..Len(r.calls) : r.calls[j].ok)
             /\ IF r.raised
                THEN /\ pc' = "exited" /\ exit' = "TypeError"
                     /\ UNCHANGED <<pr_idx, ref_idx>>
                ELSE IF ref_idx < Len(refs)
                THEN /\ ref_idx' = ref_idx + 1
                     /\ UNCHANGED <<pc, exit, pr_idx>>
                ELSE /\ pc' = "prs" /\ pr_idx' = pr_idx + 1 /\ ref_idx' = 0
                     /\ UNCHANGED exit
    /\ UNCHANGED <<prs, description, board, reply_fields, referenced,
                   dry_run, run, merged_prs, pageVars, parseVars, lookup>>

\* main.py:89: the loop over the pull requests is over; the run returns.
Return ==
    /\ pc = "prs"
    /\ pr_idx > Len(merged_prs)
    /\ pc' = "exited"
    /\ exit' = "returned"
    /\ UNCHANGED <<remote, comments, dry_run, run, merged_prs, pr_idx,
                   ref_idx, last, counters, clean, pageVars, parseVars, lookup>>

Next == StartRun \/ NextPR \/ ProcessRef \/ Return

\* main.py:146-155: the exit status of the process.  main() calls
\* notify_change_status() and returns; no sys.exit is called, so the status
\* is 0 however notify_change_status returned, and 1 when an exception left
\* it uncaught.
ExitStatus(how) == IF how = "TypeError" THEN 1 ELSE 0

Spec == Init /\ [][Next]_vars

\* With config.dry_run set (main.py:148).
InitDryRun == InitWith(TRUE)
SpecDryRun == InitDryRun /\ [][Next]_vars

\* With pull requests the remote lists referenced issues for
\* (graphql.py:32-36), on a remote that has the board.
InitLinked ==
    /\ InitRemote(FALSE, [PRNumbers -> {<<>>, <<"I1">>}])
    /\ board = "ok"
SpecLinked == InitLinked /\ [][Next]_vars

\* ------------------------------------------------- a traversal on its own
\* The nodes of the page a cursor leads to: two nodes, the last page one.
PageNodes(c) ==
    IF c = MaxCursor THEN <<10 * c>> ELSE <<10 * c, 10 * c + 1>>

\* What the server may answer to the request of a cursor.
Replies(c) ==
    {Reply("data", PageNodes(c), e, h) : e \in Cursors, h \in BOOLEAN}
        \cup {Reply("errors", <<>>, NoCursor, FALSE),
              Reply("exception", <<>>, NoCursor, FALSE)}

Servers == {f \in [Cursors -> UNION {Replies(c) : c \in Cursors}] :
               \A c \in Cursors : f[c] \in Replies(c)}

InitPage ==
    /\ tfn \in Traversals
    /\ srv \in Servers
    /\ tst = TStart
    /\ prs = <<>>
    /\ description = [n \in PRNumbers |-> <<>>]
    /\ items = [i \in Issues |-> <<>>]
    /\ comments = [i \in Issues |-> <<>>]
    /\ board = "ok"
    /\ reply_fields = PrSelection
    /\ dry_run = FALSE
    /\ run = 0
    /\ pc = "idle"
    /\ exit = "none"
    /\ merged_prs = <<>>
    /\ pr_idx = 0
    /\ ref_idx = 0
    /\ last = <<>>
    /\ nLookup = 0
    /\ nUpdate = 0
    /\ nPost = 0
    /\ posts = NoPosts
    /\ clean = TRUE
    /\ referenced = [n \in PRNumbers |-> <<>>]
    /\ text = NoText
    /\ parsed = NotParsed
    /\ lookup = NotLooked

\* One request of the traversal and what the function does with the reply:
\* graphql.py:50-80, graphql.py:354-376, scr/graphql.py:43-64.
Request ==
    /\ tst.status = "running"
    /\ tst.requests < MaxRequests
    /\ tst' = PageStep(tfn, tst, srv[tst.after])
    /\ UNCHANGED <<tfn, srv, jobVars, parseVars, lookup>>

NextPage == Request

SpecPage == InitPage /\ [][NextPage]_vars

\* ------------------------------------- parse_issue_references on its own
\* Mentions one text holds at most.
MaxMentions == 2

\* What a text is written with: mentions of the three forms, over two
\* owners, two repositories and three numbers, in words, with or without a
\* word before them.
Owners == {"org", "acme"}
Repos == {"myrepo", "other"}
Numbers == {7, 12, 45}
Written ==
    [org : {None}, repo : {None}, number : Numbers]
        \cup [org : {None}, repo : Repos, number : Numbers]
        \cup [org : Owners, repo : Repos, number : Numbers]

\* The decimal digits of a number.
RECURSIVE Digits(_)
Digits(n) ==
    IF n < 10 THEN <<DigitChars[n + 1]>>
    ELSE Digits(n \div 10) \o <<DigitChars[(n % 10) + 1]>>

\* A mention as it is written.
WriteOne(m) ==
    (IF m.org = None THEN <<>> ELSE Chars(m.org) \o <<"/">>)
        \o (IF m.repo = None THEN <<>> ELSE Chars(m.repo))
        \o <<"#">> \o Digits(m.number)

\* Mentions written one after the other, " and " between them.
RECURSIVE WriteAll(_)
WriteAll(ms) ==
    IF ms = <<>> THEN <<>>
    ELSE IF Len(ms) = 1 THEN WriteOne(ms[1])
    ELSE WriteOne(ms[1]) \o <<" ", "a", "n", "d", " ">> \o WriteAll(Tail(ms))

WrittenTexts ==
    {[null |-> FALSE, chars |-> lead \o WriteAll(ms), wrote |-> ms] :
        ms \in UNION {[1..k -> Written] : k \in 0..MaxMentions},
        lead \in {<<>>, Chars("fixes") \o <<" ">>}}

InitParse ==
    /\ text \in WrittenTexts \cup {NoText}
    /\ parsed = NotParsed
    /\ lookup = NotLooked
    /\ tfn = "none"
    /\ srv = <<>>
    /\ tst = TStart
    /\ prs = <<>>
    /\ description = [n \in PRNumbers |-> <<>>]
    /\ items = [i \in Issues |-> <<>>]
    /\ comments = [i \in Issues |-> <<>>]
    /\ board = "ok"
    /\ reply_fields = PrSelection
    /\ referenced = [n \in PRNumbers |-> <<>>]
    /\ dry_run = FALSE
    /\ run = 0
    /\ pc = "idle"
    /\ exit = "none"
    /\ merged_prs = <<>>
    /\ pr_idx = 0
    /\ ref_idx = 0
    /\ last = <<>>
    /\ nLookup = 0
    /\ nUpdate = 0
    /\ nPost = 0
    /\ posts = NoPosts
    /\ clean = TRUE

\* main.py:97: parse_issue_references is called and returns.
Parse ==
    /\ ~parsed.done
    /\ parsed' = [done |-> TRUE, issues |-> ParseText(text)]
    /\ UNCHANGED <<text, jobVars, pageVars, lookup>>

NextParse == Parse

SpecParse == InitParse /\ [][NextParse]_vars

\* --------------------------------------------- board lookups on their own
\* Project items one issue has at most.
MaxItems == 3

\* The boards an issue may be on, and the value an item may have for the
\* status field (None: no value).
Projects == {TargetProject, OtherProject, "P_third"}
StatusValues == {None, TargetStatus, OtherStatus}

\* The projectItems nodes of an issue, in server order: one item per board
\* it is on.
ItemNodes ==
    {nodes \in UNION {[1..k -> [id : {None}, project : Projects,
                                 status : StatusValues]] : k \in 0..MaxItems} :
        \A a, b \in 1..Len(nodes) : a # b => nodes[a].project # nodes[b].project}

\* The nodes with the ids the remote gives them.
WithIds(nodes) ==
    [k \in 1..Len(nodes) |-> Item(nodes[k].project, nodes[k].status)]

InitBoards ==
    /\ items \in {[i \in Issues |-> IF i = "I1" THEN WithIds(nodes) ELSE <<>>] :
                      nodes \in ItemNodes}
    /\ lookup = NotLooked
    /\ text = NoText
    /\ parsed = NotParsed
    /\ tfn = "none"
    /\ srv = <<>>
    /\ tst = TStart
    /\ prs = <<>>
    /\ description = [n \in PRNumbers |-> <<>>]
    /\ comments = [i \in Issues |-> <<>>]
    /\ board = "ok"
    /\ reply_fields = PrSelection
    /\ referenced = [n \in PRNumbers |-> <<>>]
    /\ dry_run = FALSE
    /\ run = 0
    /\ pc = "idle"
    /\ exit = "none"
    /\ merged_prs = <<>>
    /\ pr_idx = 0
    /\ ref_idx = 0
    /\ last = <<>>
    /\ nLookup = 0
    /\ nUpdate = 0
    /\ nPost = 0
    /\ posts = NoPosts
    /\ clean = TRUE

\* graphql.py:258-296 and 219-255 called for issue I1, the requests
\* answered.
Lookup ==
    /\ ~lookup.done
    /\ lookup' = [done |-> TRUE,
                  item_id |-> get_project_item_id_for_issue(TargetProject,
                                                            items["I1"]),
                  status |-> get_issue_status(items["I1"])]
    /\ UNCHANGED <<jobVars, pageVars, parseVars>>

NextBoards == Lookup

SpecBoards == InitBoards /\ [][NextBoards]_vars

\* ------------------------------- get_latest_merged_pr_into_dev on its own
\* mergedAt of a pull request that is not merged (None), and the merge
\* times, later ones greater.
NotMerged == 0
MergeTimes == 1..3

\* A node of the timeline: its __typename and its source.  The source of a
\* node that is no cross-reference, or that references an issue, has no
\* mergedAt and no baseRefName.
Event(typename, number, mergedAt, baseRefName) ==
    [typename |-> typename,
     source |-> [number |-> number, url |-> PrUrl(number),
                 mergedAt |-> mergedAt, baseRefName |-> baseRefName]]
Labeled == Event("LabeledEvent", 0, NotMerged, None)
CrossIssue == Event("CrossReferencedEvent", 0, NotMerged, None)
CrossPR(number, mergedAt, baseRefName) ==
    Event("CrossReferencedEvent", number, mergedAt, baseRefName)

Events ==
    {Labeled, CrossIssue, CrossPR(1, 1, "dev"), CrossPR(2, 2, "dev"),
     CrossPR(3, 2, "dev"), CrossPR(4, 3, "main"), CrossPR(5, NotMerged, "dev")}

\* The nodes one page of the timeline may hold.
TimelinePages ==
    {<<>>} \cup {<<e>> : e \in Events}
        \cup {<<CrossPR(1, 1, "dev"), CrossPR(3, 2, "dev")>>,
              <<CrossPR(3, 2, "dev"), CrossPR(2, 2, "dev")>>,
              <<CrossPR(2, 2, "dev"), CrossPR(1, 1, "dev")>>}

\* scr/graphql.py:409-415: the node is a cross-reference from a merged pull
\* request whose base branch is dev.
IsMergedIntoDev(item) ==
    /\ item.typename = "CrossReferencedEvent"
    /\ item.source.mergedAt # NotMerged
    /\ item.source.baseRefName = "dev"

\* scr/graphql.py:416 with >= for >.
Later_OrEqual(pr, latest_pr) ==
    latest_pr = <<>> \/ pr.mergedAt >= latest_pr[1].mergedAt

\* scr/graphql.py:416: latest_pr is None (the empty sequence here) or the
\* pull request was merged later.
Later(pr, latest_pr) ==
    latest_pr = <<>> \/ pr.mergedAt > latest_pr[1].mergedAt

\* scr/graphql.py:408-421: the loop over the nodes of a page.
RECURSIVE ScanTimeline(_, _)
ScanTimeline(latest_pr, nodes) ==
    IF nodes = <<>> THEN latest_pr
    ELSE LET pr == Head(nodes).source IN
         ScanTimeline(
             IF IsMergedIntoDev(Head(nodes)) /\ Later(pr, latest_pr)
             THEN <<[number |-> pr.number, url |-> pr.url,
                     mergedAt |-> pr.mergedAt]>>
             ELSE latest_pr,
             Tail(nodes))

\* scr/graphql.py:391-431, one pass of the loop of
\* get_latest_merged_pr_into_dev; acc holds latest_pr.  An error response
\* and an exception of the transport return None.
TimelineStep(st, reply) ==
    IF reply.kind \in {"exception", "errors"} THEN TReturn(st, <<>>)
    ELSE LET latest_pr == ScanTimeline(st.acc, reply.nodes) IN
         IF ~reply.hasNextPage THEN TReturn(st, latest_pr)
         ELSE TContinue(st, latest_pr, reply.endCursor)

\* A timeline served in pages, one per cursor, each leading to the next.
Timelines ==
    {f \in [Cursors -> [kind : ReplyKinds, nodes : TimelinePages,
                        endCursor : 1..(MaxCursor + 1), hasNextPage : BOOLEAN]] :
        \A c \in Cursors :
            /\ f[c].endCursor = c + 1
            /\ f[c].hasNextPage = (c < MaxCursor)
            /\ f[c].kind # "data" => f[c].nodes = <<>>}

InitTimeline ==
    /\ tfn = "get_latest_merged_pr_into_dev"
    /\ srv \in Timelines
    /\ tst = TStart
    /\ lookup = NotLooked
    /\ text = NoText
    /\ parsed = NotParsed
    /\ prs = <<>>
    /\ description = [n \in PRNumbers |-> <<>>]
    /\ items = [i \in Issues |-> <<>>]
    /\ comments = [i \in Issues |-> <<>>]
    /\ board = "ok"
    /\ reply_fields = PrSelection
    /\ referenced = [n \in PRNumbers |-> <<>>]
    /\ dry_run = FALSE
    /\ run = 0
    /\ pc = "idle"
    /\ exit = "none"
    /\ merged_prs = <<>>
    /\ pr_idx = 0
    /\ ref_idx = 0
    /\ last = <<>>
    /\ nLookup = 0
    /\ nUpdate = 0
    /\ nPost = 0
    /\ posts = NoPosts
    /\ clean = TRUE

\* scr/graphql.py:392-426: one request of get_latest_merged_pr_into_dev.
TimelineRequest ==
    /\ tst.status = "running"
    /\ tst.requests < MaxRequests
    /\ tst' = TimelineStep(tst, srv[tst.after])
    /\ UNCHANGED <<tfn, srv, jobVars, parseVars, lookup>>

NextTimeline == TimelineRequest

SpecTimeline == InitTimeline /\ [][NextTimeline]_vars

\* ================================================================= claims
Ops(calls) == {calls[j].op : j \in 1..Len(calls)}
WriteOps == {"update_issue_status_to_qa_testing", "add_issue_comment"}

Marker(n) == CommentText(n, PrUrl(n))
CountMarker(bodies, comment_text) ==
    Cardinality({k \in 1..Len(bodies) : IsInfix(comment_text, bodies[k])})

\* The issue has a linking identifier inside the target board.
Linked(i) == get_project_item_id_for_issue(TargetProject, items[i]) # None

\* The issue a mention of a description resolves to.
IssueOf(m) ==
    get_issue_id_by_number(ParseOne(m).org, ParseOne(m).repo,
                           ParseOne(m).number)

\* C1: idempotence across runs.  A second run, after a first one, with no
\* remote call having failed in either, issues no status-mutation call and
\* no comment-post call.
C1_Idempotent ==
    (run >= 2 /\ clean) => (nUpdate = 0 /\ nPost = 0)

\* C2: at most one notification.  Whatever failed and however often the job
\* ran, no issue carries two comments holding the marker of one pull
\* request.
C2_AtMostOneNotification ==
    \A i \in Issues : \A n \in PRNumbers :
        CountMarker(comments[i], Marker(n)) <= 1

C4_EndToEnd ==
    (pc = "exited" /\ exit \in {"returned", "TypeError"} /\ clean) =>
        \A k \in 1..Len(prs) : \A j \in 1..Len(description[prs[k]]) :
            LET i == IssueOf(description[prs[k]][j]) IN
            (i # None /\ Linked(i)) =>
                /\ get_issue_status(items[i]) = TargetStatus
                /\ CountMarker(comments[i], Marker(prs[k])) >= 1

\* C5: unlinked skip.  No status-mutation call and no comment post is
\* issued for an issue without a project item in the target board.
C5_UnlinkedSkip ==
    \A j \in 1..Len(last) :
        last[j].op \in WriteOps => Linked(last[j].issue)

\* C6: already-notified skip.  When the comment history read for a pair
\* holds the marker of its pull request, the processing of the pair ends
\* there: no status read, no status mutation, no comment post.  When the
\* history does not hold that marker, whatever other markers it holds, the
\* processing goes on to a write call.
C6_AlreadyNotifiedSkip ==
    \A j \in 1..Len(last) :
        last[j].op = "get_issue_comments" =>
            /\ (last[j].ok /\ last[j].marker = "present") =>
                  (Len(last) = j /\ last[j].res = "found")
            /\ last[j].marker = "missing" =>
                  \E w \in (j + 1)..Len(last) : last[w].op \in WriteOps

\* C6, its case: the pair of PR 100 was skipped on its marker, in a run in
\* which the pair of PR 99 on the same issue, whose marker was absent while
\* that of PR 100 was there, went on to post its comment.
C6_Witness ==
    \E i \in Issues :
        /\ comments[i] = <<Marker(100), Marker(99)>>
        /\ nPost = 1
        /\ Len(last) = 2
        /\ last[2].op = "get_issue_comments" /\ last[2].ok
        /\ last[2].marker = "present" /\ last[2].pr = 100
        /\ last[2].issue = i

\* C7: dry-run purity.  With config.dry_run set, a run issues no
\* status-mutation call and no comment-post call, and the comments of the
\* remote stay as they were.
C7_DryRunPurity ==
    dry_run => /\ nUpdate = 0 /\ nPost = 0
               /\ comments = [i \in Issues |-> <<>>]

\* C8: pagination termination.  Once two consecutive pages came back with
\* hasNextPage and the same endCursor, the traversal requests no further
\* page: no request repeats the cursor of the request before it, from the
\* second request on.
C8_CursorRepeatStops ==
    \A k \in 2..(Len(tst.cursors) - 1) : tst.cursors[k + 1] # tst.cursors[k]

\* The pages a server serves as a finite chain from a cursor on: every
\* reply is data, every endCursor leads to a page not yet served, the last
\* page has hasNextPage false.
RECURSIVE ChainFrom(_, _, _)
ChainFrom(server, c, visited) ==
    IF c \in visited \/ server[c].kind # "data"
    THEN [ok |-> FALSE, nodes |-> <<>>, cursors |-> <<>>]
    ELSE IF ~server[c].hasNextPage
    THEN [ok |-> TRUE, nodes |-> server[c].nodes, cursors |-> <<c>>]
    ELSE LET rest == ChainFrom(server, server[c].endCursor,
                               visited \cup {c}) IN
         [ok |-> rest.ok, nodes |-> server[c].nodes \o rest.nodes,
          cursors |-> <<c>> \o rest.cursors]

Chain == ChainFrom(srv, NoCursor, {})

\* C9: pagination completeness.  Against a finite chain of pages without a
\* failing request, the traversal ends by returning the concatenation of
\* the pages' nodes in server order, having requested each page once, the
\* first without cursor and each next one with the endCursor of the page
\* before; until then it has collected and requested a prefix of them.
C9_PaginationComplete ==
    Chain.ok =>
        /\ tst.status # "raised"
        /\ tst.cursors = SubSeq(Chain.cursors, 1, tst.requests)
        /\ tst.status = "returned" =>
              /\ tst.acc = Chain.nodes
              /\ tst.cursors = Chain.cursors
        /\ tst.status = "running" => tst.requests < Len(Chain.cursors)

\* C9, its case: three pages, of 2, 2 and 1 nodes, returned as 5 nodes.
C9_Witness ==
    /\ tfn = "get_recent_merged_prs_in_dev"
    /\ Chain.ok
    /\ Chain.cursors = <<0, 1, 2>>
    /\ tst.status = "returned"
    /\ Len(tst.acc) = 5
    /\ tst.requests = 3

\* C10: reference dedup.  A reference that resolves to the triple of an
\* earlier reference of the same description is not looked up and not
\* processed again.
C10_ReferenceDedup ==
    last # <<>> =>
        LET refs == parse_issue_references(description[last[1].pr]) IN
        \A k \in 1..(last[1].ref - 1) : refs[k] # refs[last[1].ref]

\* C11: reference parsing defaults.  For a text written with mentions of
\* the three forms, parse_issue_references returns one reference per
\* mention, in the order written: #N as (current owner, current repository,
\* N), repo#N as (current owner, repo, N), org/repo#N as (org, repo, N).  A
\* null text and a text without mention give no reference.
C11_Expected(m) ==
    [org    |-> IF m.org = None THEN "org" ELSE m.org,
     repo   |-> IF m.repo = None THEN "myrepo" ELSE m.repo,
     number |-> m.number]

C11_ParsingDefaults ==
    parsed.done =>
        /\ Len(parsed.issues) = Len(text.wrote)
        /\ \A k \in 1..Len(text.wrote) :
              parsed.issues[k] = C11_Expected(text.wrote[k])
        /\ text.null => parsed.issues = <<>>

\* C11, its case: "fixes org/other#45 and #7" parsed into (org, other, 45)
\* and (org, myrepo, 7).
C11_Witness ==
    /\ parsed.done
    /\ text.chars = Chars("fixes") \o <<" ">> \o Chars("org")
                        \o <<"/">> \o Chars("other")
                        \o <<"#", "4", "5", " ", "a", "n", "d", " ", "#", "7">>
    /\ parsed.issues = <<[org |-> "org", repo |-> "other", number |-> 45],
                         [org |-> "org", repo |-> "myrepo", number |-> 7]>>

\* The issues the loop of main.py:102 processes for a pull request.
ProcessedFor(pr) ==
    {get_issue_id_by_number(mentioned_issues(pr)[k].org,
                            mentioned_issues(pr)[k].repo,
                            mentioned_issues(pr)[k].number) :
        k \in 1..Len(mentioned_issues(pr))}

\* C12: evidence merging.  When a run has gone through all its pull
\* requests, every issue the remote lists in the referencedIssues of a
\* merged pull request is among the issues processed for that pull request.
C12_EvidenceMerging ==
    (pc = "exited" /\ exit = "returned") =>
        \A k \in 1..Len(merged_prs) :
            \A j \in 1..Len(merged_prs[k].referencedIssues) :
                merged_prs[k].referencedIssues[j] \in ProcessedFor(merged_prs[k])

\* The ends of a run at main.py:65-67, 73-75 and 81-83.
ConfigExits == {"no_project", "no_field", "no_option"}

\* C13: configuration error is fatal before any work.  A run on a remote
\* that lacks the project, the status field or the target option, and a run
\* whose lookup of one of them gave nothing, has stopped: it has looked up
\* no issue, called no status mutation and posted no comment; on a remote
\* that lacks one of them no issue carries a comment.
C13_ConfigFatal ==
    (run >= 1 /\ (board # "ok" \/ exit \in ConfigExits)) =>
        /\ pc = "exited"
        /\ exit \in ConfigExits \cup {"no_prs"}
        /\ nLookup = 0 /\ nUpdate = 0 /\ nPost = 0
        /\ last = <<>>
        /\ board # "ok" => comments = [i \in Issues |-> <<>>]

\* C13, its case: merged pull requests with mentions were fetched, the
\* target option is missing, and the run stopped there.
C13_Witness ==
    /\ pc = "exited" /\ exit = "no_option" /\ board = "no_option"
    /\ merged_prs # <<>>
    /\ mentioned_issues(merged_prs[1]) # <<>>
    /\ nLookup = 0

\* C14: exit status.  A run that ended because the project, the status
\* field or the target option was not found gives a non-zero exit status; a
\* run that went through its pull requests gives exit status zero.
C14_ExitStatus ==
    pc = "exited" =>
        /\ exit \in ConfigExits => ExitStatus(exit) # 0
        /\ exit = "returned" => ExitStatus(exit) = 0

\* C15: resolution miss is not fatal.  When the identifier lookup of a
\* reference gives no issue, that lookup is the only remote call of the
\* reference, nothing is written, and the run goes on: with the next
\* reference of the pull request if there is one, else with the next pull
\* request.
C15_MissNotFatal ==
    [][ (pc = "refs" /\ last' # <<>> /\ last'[1].res = None) =>
            /\ Len(last') = 1
            /\ comments' = comments /\ items' = items
            /\ nUpdate' = nUpdate /\ nPost' = nPost
            /\ exit' = exit
            /\ IF ref_idx < Len(mentioned_issues(merged_prs[pr_idx]))
               THEN pc' = "refs" /\ ref_idx' = ref_idx + 1
                    /\ pr_idx' = pr_idx
               ELSE pc' = "prs" /\ pr_idx' = pr_idx + 1 ]_vars

\* C15, its case: the lookup of the first reference of a pull request gave
\* no issue, and the run stands at the second reference.
C15_Witness ==
    /\ pc = "refs" /\ ref_idx = 2
    /\ Len(last) = 1 /\ last[1].ref = 1 /\ last[1].res = None
    /\ nUpdate = 0 /\ nPost = 0

\* C16: transport failure isolation.  A remote call of a pair that the
\* transport failed is not issued again for the pair, no write of the pair
\* follows it (the operation counts as failed for the pair), and the run
\* has not ended on an exception: it goes on with the remaining pairs.
C16_TransportIsolation ==
    \A j \in 1..Len(last) :
        ~last[j].ok =>
            /\ \A w \in (j + 1)..Len(last) :
                  /\ last[w].op # last[j].op
                  /\ last[w].op \notin WriteOps
            /\ ~(pc = "exited" /\ exit = "TypeError")

\* The status read of a pair fails while the issue is at the target status,
\* and the run ends there on the exception, references left unprocessed.
C16_Aborted ==
    \E j \in 1..Len(last) :
        /\ last[j].op = "get_issue_status" /\ ~last[j].ok
        /\ get_issue_status(items[last[j].issue]) = TargetStatus
        /\ pc = "exited" /\ exit = "TypeError"
        /\ ref_idx < Len(mentioned_issues(merged_prs[pr_idx]))

\* C18: notification-only path.  For a pair whose issue carries no comment
\* with the marker of the pull request and whose status read gave the
\* target status, the comment post is called, once, and no status mutation
\* is called.
C18_NotificationOnly ==
    \A j \in 1..Len(last) : \A k \in 1..Len(last) :
        ( /\ last[j].op = "get_issue_comments" /\ last[j].marker = "missing"
          /\ last[k].op = "get_issue_status" /\ last[k].res = TargetStatus ) =>
            /\ CountOp(last, "add_issue_comment") = 1
            /\ CountOp(last, "update_issue_status_to_qa_testing") = 0
            /\ last[Len(last)].op = "add_issue_comment"

\* C18, its case: an issue at the target status without comment got the
\* comment of PR 99 posted, no status mutation having been called in the
\* run.
C18_Witness ==
    /\ Len(last) = 4
    /\ last[2].op = "get_issue_comments" /\ last[2].marker = "missing"
    /\ last[3].op = "get_issue_status" /\ last[3].res = TargetStatus
    /\ last[4].op = "add_issue_comment" /\ last[4].ok /\ last[4].pr = 99
    /\ comments[last[4].issue] = <<Marker(99)>>
    /\ nUpdate = 0

\* C19: check-last ordering.  In the processing of a pair, the remote call
\* right before the first write is the read of the comments: no other
\* remote read lies between the comment-existence check and the write.
C19_CheckLast ==
    \A w \in 1..Len(last) :
        ( /\ last[w].op \in WriteOps
          /\ \A v \in 1..(w - 1) : last[v].op \notin WriteOps ) =>
            /\ w > 1
            /\ last[w - 1].op = "get_issue_comments"

\* C21: guard of the comment post.  Every comment post is preceded, in the
\* processing of its pair, by a comment-existence check that returned false
\* and by a status read that returned the target status or a status
\* mutation that returned a truthy result; the processing calls the status
\* mutation at most once; and in a run no (issue, pull request) pair gets
\* more than one comment post.
C21_CommentGuard ==
    /\ \A j \in 1..Len(last) :
          last[j].op = "add_issue_comment" =>
              /\ \E c \in 1..(j - 1) :
                    last[c].op = "get_issue_comments" /\ last[c].res = "absent"
              /\ \E k \in 1..(j - 1) :
                    \/ last[k].op = "get_issue_status"
                          /\ last[k].res = TargetStatus
                    \/ last[k].op = "update_issue_status_to_qa_testing"
                          /\ last[k].res = "data"
    /\ CountOp(last, "update_issue_status_to_qa_testing") <= 1
    /\ \A q \in Issues \X PRNumbers : posts[q] <= 1

\* The merged pull requests whose description mentions the issue.
MentionedBy(i) ==
    {n \in PRNumbers :
        /\ \E k \in 1..Len(prs) : prs[k] = n
        /\ \E j \in 1..Len(description[n]) : IssueOf(description[n][j]) = i}

\* C22: one issue, several pull requests.  When the first run has ended
\* without a failed remote call, an issue that two or more merged pull
\* requests mention carries exactly one comment per pull request, with that
\* pull request's marker, is at the target status when it is on the target
\* board, and the run called the status mutation at most once.
C22_OneIssueManyPRs ==
    (run = 1 /\ pc = "exited" /\ exit \in {"returned", "TypeError"} /\ clean) =>
        \A i \in Issues :
            Cardinality(MentionedBy(i)) >= 2 =>
                /\ \A n \in MentionedBy(i) :
                      CountMarker(comments[i], Marker(n)) = 1
                /\ Len(comments[i]) = Cardinality(MentionedBy(i))
                /\ Linked(i) => get_issue_status(items[i]) = TargetStatus
                /\ nUpdate <= 1

\* C23: a failed or empty read is a negative answer.  A comment read that
\* failed counts as a history without the marker and the processing goes on
\* to the status read; a status read that returned None, having failed or
\* found no value, is followed by the status-mutation call for the pair.
C23_NegativeAnswer ==
    \A j \in 1..Len(last) :
        /\ (last[j].op = "get_issue_comments" /\ ~last[j].ok) =>
              /\ last[j].res = "absent"
              /\ Len(last) > j
              /\ last[j + 1].op = "get_issue_status"
        /\ (last[j].op = "get_issue_status" /\ last[j].res = None) =>
              /\ Len(last) > j
              /\ last[j + 1].op = "update_issue_status_to_qa_testing"

\* C23, its case: the comment read and the status read of a pair both
\* failed, on an issue at the target status, and the status mutation was
\* called for the pair.
C23_Witness ==
    /\ Len(last) = 4
    /\ last[2].op = "get_issue_comments" /\ ~last[2].ok
    /\ last[3].op = "get_issue_status" /\ ~last[3].ok /\ last[3].res = None
    /\ get_issue_status(items[last[3].issue]) = TargetStatus
    /\ last[4].op = "update_issue_status_to_qa_testing"

\* The nodes of the pages the first n requests of the traversal were
\* answered with, in the order requested.
RECURSIVE Served(_)
Served(n) ==
    IF n = 0 THEN <<>>
    ELSE Served(n - 1) \o srv[tst.cursors[n]].nodes

\* The reply to the last request of the traversal.
LastReply == srv[tst.cursors[tst.requests]]

\* C24: outcome of an interrupted traversal.  get_recent_merged_prs_in_dev
\* ended by an error response returns the nodes of the pages before it, and
\* ended by an exception of the transport returns the empty list;
\* get_project_issues and get_project_items ended by either return the
\* empty list.
C24_InterruptedTraversal ==
    (tst.status = "returned" /\ tst.requests >= 1) =>
        /\ tfn = "get_recent_merged_prs_in_dev" =>
              /\ LastReply.kind = "errors" =>
                    tst.acc = Served(tst.requests - 1)
              /\ LastReply.kind = "exception" => tst.acc = <<>>
        /\ tfn \in {"get_project_issues", "get_project_items"} =>
              (LastReply.kind \in {"errors", "exception"} => tst.acc = <<>>)

\* C24, its case: the second page of get_recent_merged_prs_in_dev came
\* back as an error response and the two nodes of the first page were
\* returned.
C24_Witness ==
    /\ tfn = "get_recent_merged_prs_in_dev"
    /\ tst.status = "returned" /\ tst.requests = 2
    /\ srv[tst.cursors[2]].kind = "errors"
    /\ Len(tst.acc) = 2
    /\ tst.acc = srv[NoCursor].nodes

\* The positions of the items of issue I1 that are on the target board, and
\* of those that have a value for the status field.
OnTarget == {k \in 1..Len(items["I1"]) : items["I1"][k].project = TargetProject}
Valued == {k \in 1..Len(items["I1"]) : items["I1"][k].status # None}
Least(S) == CHOOSE k \in S : \A j \in S : k <= j

\* C25: board-specific lookups.  get_project_item_id_for_issue returns the
\* id of the item of the target board, None when the issue has none there;
\* get_issue_status returns the value of the first item in server order
\* that has one, on whichever board, None when no item has one.
C25_BoardLookups ==
    lookup.done =>
        /\ lookup.item_id =
              IF OnTarget = {} THEN None ELSE items["I1"][Least(OnTarget)].id
        /\ lookup.status =
              IF Valued = {} THEN None ELSE items["I1"][Least(Valued)].status

\* C25, its case: an issue on three boards, the first item without a value,
\* the second on another board at "QA Testing", the third on the target
\* board at "In Progress": the item id is that of the third, the status
\* that of the second.
C25_Witness ==
    /\ lookup.done
    /\ items["I1"] = <<Item("P_third", None), Item(OtherProject, TargetStatus),
                       Item(TargetProject, OtherStatus)>>
    /\ lookup.item_id = Item(TargetProject, OtherStatus).id
    /\ lookup.status = TargetStatus

\* The nodes of all pages of the timeline, in server order.
RECURSIVE TimelineFrom(_)
TimelineFrom(c) ==
    IF c > MaxCursor THEN <<>> ELSE srv[c].nodes \o TimelineFrom(c + 1)

\* The positions, in the whole timeline, of the cross-referenced pull
\* requests that are merged and have dev as base branch.
Candidates ==
    {k \in 1..Len(TimelineFrom(NoCursor)) :
        LET e == TimelineFrom(NoCursor)[k] IN
        /\ e.typename = "CrossReferencedEvent"
        /\ e.source.mergedAt \in MergeTimes
        /\ e.source.baseRefName = "dev"}

\* The first of the candidates with the greatest mergedAt.
Best ==
    CHOOSE k \in Candidates :
        \A j \in Candidates :
            LET a == TimelineFrom(NoCursor)[k].source.mergedAt
                b == TimelineFrom(NoCursor)[j].source.mergedAt
            IN a > b \/ (a = b /\ k <= j)

\* C26: get_latest_merged_pr_into_dev.  Having returned: when every page
\* was answered, the result is the cross-referenced pull request with the
\* greatest mergedAt among the merged ones with base dev over all pages,
\* the first seen on a tie, and None (the empty sequence) when there is
\* none; when a page answers with an error, the result is None.
C26_LatestMergedPr ==
    (tfn = "get_latest_merged_pr_into_dev" /\ tst.status = "returned") =>
        /\ (\A c \in Cursors : srv[c].kind = "data") =>
              /\ tst.requests = MaxCursor + 1
              /\ IF Candidates = {} THEN tst.acc = <<>>
                 ELSE LET pr == TimelineFrom(NoCursor)[Best].source IN
                      tst.acc = <<[number |-> pr.number, url |-> pr.url,
                                   mergedAt |-> pr.mergedAt]>>
        /\ (\E c \in Cursors : srv[c].kind = "errors") => tst.acc = <<>>

\* C26, its case: three pages; PR 1 merged at 1, then PR 3 and PR 2 both
\* merged at 2, then a later pull request merged into main: PR 3, the first
\* of the two latest, is returned.
C26_Witness ==
    /\ tfn = "get_latest_merged_pr_into_dev"
    /\ tst.status = "returned" /\ tst.requests = 3
    /\ srv[0].nodes = <<CrossPR(1, 1, "dev")>>
    /\ srv[1].nodes = <<CrossPR(3, 2, "dev"), CrossPR(2, 2, "dev")>>
    /\ srv[2].nodes = <<CrossPR(4, 3, "main")>>
    /\ tst.acc = <<[number |-> 3, url |-> PrUrl(3), mergedAt |-> 2]>>

====
